---- MODULE Spec2Model ----
(***************************************************************************)
(* A model of LadderBot (src/src/index.ts): the Client class that watches  *)
(* ladder battles, pulls the leaderboard on a fixed tick, diffs successive *)
(* leaderboards, gates voice-level leaderboard requests behind a cooldown  *)
(* and finalizes at a deadline.                                            *)
(*                                                                         *)
(* Strings are sequences of one-character strings, so that toID,           *)
(* startsWith and the lexicographic comparison of room ids are computed    *)
(* as the code computes them.  An optional field (x?: T) holds None while  *)
(* undefined and Some(v) once set; lastid holds the empty string while     *)
(* unset (undefined and '' are both falsy in the code's tests).            *)
(***************************************************************************)
EXTENDS Integers, Sequences, FiniteSets, TLC

\* ------------------------------------------------------------------ bounds
\* longest ranked list handed to getDiffs
MaxDiffLen == 3
\* longest raw toplist handed to the snapshot builder
MaxRawLen == 3

\* ------------------------------------------------------- program constants
MINUTE == 60000
\* FACTOR = 1.5, kept as the fraction FactorNum / FactorDen
FactorNum == 3
FactorDen == 2
\* Infinity of the code: a rank larger than every position and every cutoff
Infinity == 1000000

\* an optional value: undefined, or a value
None == <<>>
Some(v) == <<v>>
Val(o) == o[1]

\* --------------------------------------------------------------- strings
UpperCase == <<"A", "B", "C", "D", "E", "F", "G", "H", "I", "J", "K", "L", "M",
               "N", "O", "P", "Q", "R", "S", "T", "U", "V", "W", "X", "Y", "Z">>
LowerCase == <<"a", "b", "c", "d", "e", "f", "g", "h", "i", "j", "k", "l", "m",
               "n", "o", "p", "q", "r", "s", "t", "u", "v", "w", "x", "y", "z">>
Digits == <<"0", "1", "2", "3", "4", "5", "6", "7", "8", "9">>

\* String.prototype.toLowerCase, on one character
ToLowerCase(ch) ==
  IF \E i \in 1..26 : UpperCase[i] = ch
  THEN LowerCase[CHOOSE i \in 1..26 : UpperCase[i] = ch]
  ELSE ch

\* the characters /[^a-z0-9]+/ does not strip
AlnumLower == {LowerCase[i] : i \in 1..26} \cup {Digits[i] : i \in 1..10}

\* Number(text) on a trimmed text: the value of a decimal numeral, 0 for the
\* empty text, None (NaN) for a text with any other character
RECURSIVE Decimal(_, _)
Decimal(acc, text) ==
  IF text = <<>> THEN acc
  ELSE Decimal(10 * acc + (CHOOSE d \in 0..9 : Digits[d + 1] = Head(text)), Tail(text))

Number(text) ==
  IF \A i \in 1..Len(text) : \E d \in 1..10 : Digits[d] = text[i]
  THEN Some(Decimal(0, text))
  ELSE None

\* toID on a string: lower-case, then strip every character outside [a-z0-9]
RECURSIVE toID(_)
toID(text) ==
  IF text = <<>> THEN <<>>
  ELSE LET ch == ToLowerCase(Head(text))
       IN  (IF ch \in AlnumLower THEN <<ch>> ELSE <<>>) \o toID(Tail(text))

\* String.prototype.startsWith
startsWith(s, p) == Len(p) <= Len(s) /\ SubSeq(s, 1, Len(p)) = p

\* a < b on strings: lexicographic on the code units.  Room ids share the
\* prefix "battle-<format>-", so they are modelled by their decimal digits.
RECURSIVE StrLess(_, _)
StrLess(a, b) ==
  IF a = <<>> THEN b # <<>>
  ELSE IF b = <<>> THEN FALSE
  ELSE IF Head(a) < Head(b) THEN TRUE
  ELSE IF Head(a) > Head(b) THEN FALSE
  ELSE StrLess(Tail(a), Tail(b))

\* a >= b on strings
StrGeq(a, b) == ~StrLess(a, b)

\* ------------------------------------------------------------------ maps
\* a Map is a function on the set of its keys
EmptyMap == [k \in {} |-> None]
MapHas(m, k) == k \in DOMAIN m
MapGet(m, k) == IF k \in DOMAIN m THEN Some(m[k]) ELSE None
MapSet(m, k, v) == [x \in (DOMAIN m) \cup {k} |-> IF x = k THEN v ELSE m[x]]

\* Array.prototype.slice(0, n)
SliceTo(list, n) == SubSeq(list, 1, IF n < Len(list) THEN n ELSE Len(list))

\* ------------------------------------------------------------- getDiffs
\* last.findIndex(e => toID(e.name) === id) + 1: the first position, or 0
FindRank(list, id) ==
  IF \E i \in 1..Len(list) : toID(list[i].name) = id
  THEN CHOOSE i \in 1..Len(list) :
         /\ toID(list[i].name) = id
         /\ \A j \in 1..(i - 1) : toID(list[j].name) # id
  ELSE 0

\* first loop of getDiffs, from position i of lastN on
RECURSIVE DiffLastPass(_, _, _, _)
DiffLastPass(diffs, lastN, current, i) ==
  IF i > Len(lastN) THEN diffs
  ELSE LET player == lastN[i]
           id == toID(player.name)
           oldrank == i
           found == FindRank(current, id)
           newrank == IF found = 0 THEN Infinity ELSE found
           elo == IF found = 0 THEN 0 ELSE current[found].elo
           next == IF oldrank # newrank
                   THEN MapSet(diffs, id, <<player.name, elo, oldrank, newrank>>)
                   ELSE diffs
       IN  DiffLastPass(next, lastN, current, i + 1)

\* second loop of getDiffs, from position i of currentN on
RECURSIVE DiffCurrentPass(_, _, _, _)
DiffCurrentPass(diffs, last, currentN, i) ==
  IF i > Len(currentN) THEN diffs
  ELSE LET player == currentN[i]
           id == toID(player.name)
           newrank == i
           found == FindRank(last, id)
           oldrank == IF found = 0 THEN Infinity ELSE found
           next == IF oldrank # newrank
                   THEN MapSet(diffs, id, <<player.name, player.elo, oldrank, newrank>>)
                   ELSE diffs
       IN  DiffCurrentPass(next, last, currentN, i + 1)

\* getDiffs without its second loop
getDiffs_LastPassOnly(last, current, num) ==
  LET lastN == IF num # 0 THEN SliceTo(last, num) ELSE last
  IN  DiffLastPass(EmptyMap, lastN, current, 1)

\* getDiffs(last, current, num); num = 0 stands for an absent num
getDiffs(last, current, num) ==
  LET lastN == IF num # 0 THEN SliceTo(last, num) ELSE last
      currentN == IF num # 0 THEN SliceTo(current, num) ELSE current
  IN  DiffCurrentPass(DiffLastPass(EmptyMap, lastN, current, 1), last, currentN, 1)


\* ------------------------------------------------------- snapshot builder
\* Math.round on a non-negative value given in halves (x2 = 2 * x)
RoundHalves(x2) == (x2 + 1) \div 2

\* a record of the toplist that is null: reading data.username throws
NullRecord == [null |-> TRUE]
IsNull(data) == "null" \in DOMAIN data

\* the loop of getLeaderboard over response.data.toplist, from record i on:
\* every record enters the lookup under data.userid; a record whose userid
\* starts with the prefix also gets the next rank and is pushed on the list.
\* The entry object is shared by the lookup and the list, so the rank set
\* after lookup.set is seen through the lookup too.  A null record throws:
\* the loop is left for the catch block with what was built so far.
RECURSIVE BuildFrom(_, _, _, _, _)
BuildFrom(ranked, lookup, toplist, pfx, i) ==
  IF i > Len(toplist) THEN [ranked |-> ranked, lookup |-> lookup, threw |-> FALSE]
  ELSE IF IsNull(toplist[i]) THEN [ranked |-> ranked, lookup |-> lookup, threw |-> TRUE]
  ELSE LET data == toplist[i]
           inList == startsWith(data.userid, pfx)
           entry == [name |-> data.username,
                     elo |-> RoundHalves(data.elo2),
                     rank |-> IF inList THEN Len(ranked) + 1 ELSE 0]
       IN  BuildFrom(IF inList THEN Append(ranked, entry) ELSE ranked,
                     MapSet(lookup, data.userid, entry), toplist, pfx, i + 1)

\* the loop with the rank taken from the position in the toplist
RECURSIVE BuildFromRawRank(_, _, _, _, _)
BuildFromRawRank(ranked, lookup, toplist, pfx, i) ==
  IF i > Len(toplist) THEN [ranked |-> ranked, lookup |-> lookup, threw |-> FALSE]
  ELSE IF IsNull(toplist[i]) THEN [ranked |-> ranked, lookup |-> lookup, threw |-> TRUE]
  ELSE LET data == toplist[i]
           inList == startsWith(data.userid, pfx)
           entry == [name |-> data.username,
                     elo |-> RoundHalves(data.elo2),
                     rank |-> IF inList THEN i ELSE 0]
       IN  BuildFromRawRank(IF inList THEN Append(ranked, entry) ELSE ranked,
                            MapSet(lookup, data.userid, entry), toplist, pfx, i + 1)

BuildLeaderboard_RawRank(toplist, pfx) ==
  BuildFromRawRank(<<>>, EmptyMap, toplist, pfx, 1)

\* the try block of getLeaderboard up to the display test
BuildLeaderboard(toplist, pfx) == BuildFrom(<<>>, EmptyMap, toplist, pfx, 1)

\* ---------------------------------------------------------------- state
VARIABLES
  config,      \* the Readonly<Config> the client was constructed with
  prefix,      \* this.prefix
  rating,      \* this.rating
  deadline,    \* this.deadline: None, or Some(time in ms)
  users,       \* this.users
  lastid,      \* this.lastid: a room id, <<>> while unset
  showdiffs,   \* this.showdiffs
  started,     \* this.started: None, or Some(handle setInterval returned)
  final,       \* this.final: None, or Some(handle setTimeout returned)
  leaderboard, \* this.leaderboard: [current, last, lookup]
  cooldown,    \* this.cooldown: None, or Some(time in ms)
  changed,     \* this.changed: None, Some(TRUE) or Some(FALSE)
  lines,       \* this.lines: [them, total]
  now,         \* the wall clock, in ms
  intervals,   \* the armed interval timers (handles)
  timeouts,    \* the pending one-shot timers: [id, at]
  polling,     \* captureFinalLeaderboard is re-queued on process.nextTick
  pulls,       \* the http.get calls of getLeaderboard still in flight
  roomlist,    \* the filters of the /cmd roomlist requests not answered yet
  reported,    \* history: how often each room id was reported (up to 2)
  seen,        \* history: the room ids of the room lists received so far
  log,         \* what the last handler did (reports emitted, gate decision)
  sinceStop,   \* history: what happened to the snapshots since the last stop
  args,        \* the arguments of a function applied on its own
  ret          \* its result

clientVars == <<config, prefix, rating, deadline, users, lastid, showdiffs,
                started, final, leaderboard, cooldown, changed, lines>>
envVars == <<now, intervals, timeouts, polling, pulls>>
histVars == <<log, sinceStop>>
callVars == <<args, ret>>
roomVars == <<roomlist, reported, seen>>
vars == <<clientVars, envVars, histVars, callVars, roomVars>>


\* ----------------------------------------------------------- environment
\* bounds of the environment the client is run in
MaxClock == 3        \* clock steps taken after construction
MaxInFlight == 2     \* leaderboard pulls in flight at once
MaxRoomReqs == 1     \* room list requests not answered yet
MaxLines == 3        \* chat lines counted between two displays
MaxRooms == 1        \* rooms in one room list
MaxCutoff == 2       \* config.cutoff, when configured

\* the clock at construction, in ms since 1970-01-01.  TLC's integers are 32
\* bits wide and the gate multiplies a time by 6, so the model starts the
\* clock 5000 minutes in; every later start gives the same comparisons.
Epoch == 5000 * MINUTE

\* config.json: prefix and rating as in the README, with and without cutoff
Configs ==
  { [nickname |-> <<"B">>, prefix |-> <<"L">>, rating |-> 1500, cutoff |-> c]
      : c \in {0, MaxCutoff} }

\* the log of a handler whose outcome is all in the client's state
NoLog == [op |-> "none"]

\* a handle no live timer has
FreshHandle(used) == CHOOSE h \in 1..(Cardinality(used) + 1) : h \notin used

\* the state the constructor leaves, for a config.json among cfgs
Constructed(cfgs) ==
  /\ config \in cfgs
  /\ prefix = toID(config.prefix)
  /\ rating = config.rating
  /\ deadline = None
  /\ users = {}
  /\ lastid = <<>>
  /\ showdiffs = FALSE
  /\ started = None
  /\ final = None
  /\ leaderboard = [current |-> None, last |-> None, lookup |-> EmptyMap]
  /\ cooldown = None
  /\ changed = None
  /\ lines = [them |-> 0, total |-> 0]
  /\ now = Epoch
  /\ intervals = {}
  /\ timeouts = {}
  /\ polling = FALSE
  /\ pulls = <<>>
  /\ roomlist = <<>>
  /\ reported = EmptyMap
  /\ seen = {}
  /\ log = NoLog
  /\ sinceStop = "never"

Init ==
  /\ Constructed(Configs)
  /\ args = <<>>
  /\ ret = <<>>

\* ------------------------------------------------------- start and stop
\* start() without its test of this.started: a second tick is armed
start_Rearm ==
  LET h == FreshHandle(intervals)
  IN  /\ started' = Some(h)
      /\ intervals' = intervals \cup {h}

\* start(): arms the tick unless one is armed; log.status of the caller
\* tells whether the /status report went out
start ==
  IF started # None
  THEN UNCHANGED <<started, intervals>>
  ELSE LET h == FreshHandle(intervals)
       IN  /\ started' = Some(h)
           /\ intervals' = intervals \cup {h}

\* stop() finds this.started set
stopRuns == started # None

\* the pulls in flight once stop() has run: the same requests; those made
\* before an effective stop are marked (history only)
PullsAfterStop ==
  IF stopRuns THEN [i \in 1..Len(pulls) |-> [pulls[i] EXCEPT !.stale = TRUE]]
  ELSE pulls

\* stop(): cancels the tick and discards both snapshots, if a tick is armed;
\* log.status of the caller tells whether the /status report went out
stop ==
  IF stopRuns
  THEN /\ intervals' = intervals \ {Val(started)}
       /\ started' = None
       /\ leaderboard' = [leaderboard EXCEPT !.current = None, !.last = None]
       /\ sinceStop' = "clean"
  ELSE UNCHANGED <<started, intervals, leaderboard, sinceStop>>

\* the event loop runs timers and messages only while no process.nextTick
\* callback is queued: captureFinalLeaderboard re-queues itself until the
\* deadline is reached
Idle == ~polling


\* ------------------------------------------------------------------ chat
AUTH == {"~", "&", "#", "@", "%"}

\* who speaks in the room: a staff member, a voiced user, a regular user
\* and the bot itself (its own lines are echoed back to it)
StaffUser == <<"%", "a">>
VoiceUser == <<"+", "c">>
ChatUsers == {StaffUser, VoiceUser, <<" ", "c">>, <<" ", "B">>}

authed(user) == Head(user) \in AUTH \/ toID(user) = <<"p", "r", "e">>
voiced(user) == Head(user) = "+"

\* this.lines after the first two statements of onChat
counted(user) ==
  [them |-> lines.them + (IF toID(user) # toID(config.nickname) THEN 1 ELSE 0),
   total |-> lines.total + 1]

\* the first two statements of onChat: every chat line is counted
countLine(user) == lines' = counted(user)

\* a chat line may arrive: the loop is idle and the line count is in bounds
ChatArrives(user) == Idle /\ user \in ChatUsers /\ lines.total < MaxLines

\* the line is a command of a staff member (the voiced branch returns first)
StaffCommand(user) == ChatArrives(user) /\ authed(user) /\ ~voiced(user)

\* a chat line that is no command, or a command of a user with no rank
ChatLine(user) ==
  /\ ChatArrives(user)
  /\ countLine(user)
  /\ log' = NoLog
  /\ UNCHANGED <<config, prefix, rating, deadline, users, lastid, showdiffs,
                 started, final, leaderboard, cooldown, changed>>
  /\ UNCHANGED <<envVars, sinceStop, callVars, roomVars>>

\* onChallstr, once the login request succeeds: its last statement is start()
Login ==
  /\ Idle
  /\ start
  /\ log' = [op |-> "start", status |-> started = None]
  /\ UNCHANGED <<config, prefix, rating, deadline, users, lastid, showdiffs,
                 final, leaderboard, cooldown, changed, lines>>
  /\ UNCHANGED <<now, timeouts, polling, pulls, sinceStop, callVars, roomVars>>

\* .start
StaffStart(user) ==
  /\ StaffCommand(user)
  /\ countLine(user)
  /\ start
  /\ log' = [op |-> "start", status |-> started = None]
  /\ UNCHANGED <<config, prefix, rating, deadline, users, lastid, showdiffs,
                 final, leaderboard, cooldown, changed>>
  /\ UNCHANGED <<now, timeouts, polling, pulls, sinceStop, callVars, roomVars>>

\* .stop
StaffStop(user) ==
  /\ StaffCommand(user)
  /\ countLine(user)
  /\ stop
  /\ pulls' = PullsAfterStop
  /\ log' = [op |-> "stop", status |-> stopRuns]
  /\ UNCHANGED <<config, prefix, rating, deadline, users, lastid, showdiffs,
                 final, cooldown, changed>>
  /\ UNCHANGED <<now, timeouts, polling, callVars, roomVars>>

\* .leave: stop(), then the /leave report
StaffLeave(user) ==
  /\ StaffCommand(user)
  /\ countLine(user)
  /\ stop
  /\ pulls' = PullsAfterStop
  /\ log' = [op |-> "leave"]
  /\ UNCHANGED <<config, prefix, rating, deadline, users, lastid, showdiffs,
                 final, cooldown, changed>>
  /\ UNCHANGED <<now, timeouts, polling, callVars, roomVars>>

\* .showdiffs
StaffShowdiffs(user) ==
  /\ StaffCommand(user)
  /\ countLine(user)
  /\ showdiffs' = TRUE
  /\ log' = NoLog
  /\ UNCHANGED <<config, prefix, rating, deadline, users, lastid,
                 started, final, leaderboard, cooldown, changed>>
  /\ UNCHANGED <<envVars, sinceStop, callVars, roomVars>>

\* .hidediffs
StaffHidediffs(user) ==
  /\ StaffCommand(user)
  /\ countLine(user)
  /\ showdiffs' = FALSE
  /\ log' = NoLog
  /\ UNCHANGED <<config, prefix, rating, deadline, users, lastid,
                 started, final, leaderboard, cooldown, changed>>
  /\ UNCHANGED <<envVars, sinceStop, callVars, roomVars>>

\* .prefix with the snapshots kept when the prefix changes
StaffPrefix_NoClear(user, argument) ==
  /\ StaffCommand(user)
  /\ countLine(user)
  /\ LET p == toID(argument)
     IN  /\ prefix' = IF p # <<>> /\ p # prefix THEN p ELSE prefix
         /\ log' = [op |-> "prefix", status |-> p # <<>> /\ p # prefix]
  /\ UNCHANGED <<config, rating, deadline, users, lastid, showdiffs,
                 started, final, leaderboard, cooldown, changed>>
  /\ UNCHANGED <<envVars, sinceStop, callVars, roomVars>>

\* .prefix ARGUMENT: a new, non-empty prefix discards both snapshots
\* (log.status tells whether the prefix changed)
StaffPrefix(user, argument) ==
  /\ StaffCommand(user)
  /\ countLine(user)
  /\ LET p == toID(argument)
     IN  /\ IF p # <<>> /\ p # prefix
            THEN /\ prefix' = p
                 /\ leaderboard' = [leaderboard EXCEPT !.current = None, !.last = None]
            ELSE UNCHANGED <<prefix, leaderboard>>
         /\ log' = [op |-> "prefix", status |-> p # <<>> /\ p # prefix]
  /\ UNCHANGED <<config, rating, deadline, users, lastid, showdiffs,
                 started, final, cooldown, changed>>
  /\ UNCHANGED <<envVars, sinceStop, callVars, roomVars>>

\* .rating without its test of the number: NaN is stored as no rating
StaffRating_NoTest(user, argument) ==
  /\ StaffCommand(user)
  /\ countLine(user)
  /\ LET r == Number(argument)
     IN  /\ rating' = IF r # None THEN Val(r) ELSE 0
         /\ log' = [op |-> "rating", status |-> r # None /\ Val(r) # 0]
  /\ UNCHANGED <<config, prefix, deadline, users, lastid, showdiffs,
                 started, final, leaderboard, cooldown, changed>>
  /\ UNCHANGED <<envVars, sinceStop, callVars, roomVars>>

\* .rating ARGUMENT (or .elo): a number other than 0 becomes the rating and
\* is reported by /status (log.status)
StaffRating(user, argument) ==
  /\ StaffCommand(user)
  /\ countLine(user)
  /\ LET r == Number(argument)
     IN  /\ IF r # None /\ Val(r) # 0
            THEN rating' = Val(r)
            ELSE UNCHANGED rating
         /\ log' = [op |-> "rating", status |-> r # None /\ Val(r) # 0]
  /\ UNCHANGED <<config, prefix, deadline, users, lastid, showdiffs,
                 started, final, leaderboard, cooldown, changed>>
  /\ UNCHANGED <<envVars, sinceStop, callVars, roomVars>>

\* .watch NAME,... (or .add, .track, .follow); names is argument.split(',')
StaffWatch(user, names) ==
  /\ StaffCommand(user)
  /\ countLine(user)
  /\ users' = users \cup {toID(names[i]) : i \in 1..Len(names)}
  /\ log' = NoLog
  /\ UNCHANGED <<config, prefix, rating, deadline, lastid, showdiffs,
                 started, final, leaderboard, cooldown, changed>>
  /\ UNCHANGED <<envVars, sinceStop, callVars, roomVars>>

\* .unwatch NAME,... (or .remove, .untrack, .unfollow)
StaffUnwatch(user, names) ==
  /\ StaffCommand(user)
  /\ countLine(user)
  /\ users' = users \ {toID(names[i]) : i \in 1..Len(names)}
  /\ log' = NoLog
  /\ UNCHANGED <<config, prefix, rating, deadline, lastid, showdiffs,
                 started, final, leaderboard, cooldown, changed>>
  /\ UNCHANGED <<envVars, sinceStop, callVars, roomVars>>

\* --------------------------------------------------------------- deadline
\* new Date(argument) for the arguments the model types: two dates after
\* construction, and a text that is no date (NaN, so !+date holds)
DateArgs == {"epoch+1s", "epoch+1.5s", "soon"}
DateOf(argument) ==
  CASE argument = "epoch+1s" -> Some(Epoch + 1000)
    [] argument = "epoch+1.5s" -> Some(Epoch + 1500)
    [] OTHER -> None

\* setDeadline without its clearTimeout: the earlier timer stays pending
setDeadline_NoClear(argument) ==
  LET date == DateOf(argument)
      h == FreshHandle({t.id : t \in timeouts})
  IN  IF date = None
      THEN UNCHANGED <<deadline, final, timeouts>>
      ELSE /\ deadline' = date
           /\ final' = Some(h)
           /\ timeouts' = timeouts \cup {[id |-> h, at |-> Val(date) - 500]}

\* setDeadline(argument): an unparseable date returns early; otherwise the
\* deadline is stored, the pending deadline timer is cleared and a new one
\* is armed to fire 500 ms before the deadline
setDeadline(argument) ==
  LET date == DateOf(argument)
      kept == IF final # None THEN {t \in timeouts : t.id # Val(final)} ELSE timeouts
      h == FreshHandle({t.id : t \in kept})
  IN  IF date = None
      THEN UNCHANGED <<deadline, final, timeouts>>
      ELSE /\ deadline' = date
           /\ final' = Some(h)
           /\ timeouts' = kept \cup {[id |-> h, at |-> Val(date) - 500]}

\* .deadline ARGUMENT (or .remaining): sets the deadline when an argument is
\* given, then reports the time remaining
StaffDeadline(user, argument) ==
  /\ StaffCommand(user)
  /\ countLine(user)
  /\ IF argument # "" THEN setDeadline(argument)
     ELSE UNCHANGED <<deadline, final, timeouts>>
  /\ log' = [op |-> "deadline", pending |-> timeouts]
  /\ UNCHANGED <<config, prefix, rating, users, lastid, showdiffs,
                 started, leaderboard, cooldown, changed>>
  /\ UNCHANGED <<now, intervals, polling, pulls, sinceStop, callVars, roomVars>>

\* a request of getLeaderboard goes out: kind names the caller awaiting it
NewPull(kind) == [kind |-> kind, stale |-> FALSE]

\* captureFinalLeaderboard, run on the pulls q left by the caller: before the
\* deadline it re-queues itself on process.nextTick, else it requests the
\* final leaderboard
captureFinalLeaderboard(q) ==
  IF deadline # None /\ now < Val(deadline)
  THEN /\ polling' = TRUE
       /\ pulls' = q
  ELSE /\ polling' = FALSE
       /\ pulls' = Append(q, NewPull("final"))

\* the deadline timer's callback without its stop()
FinalFire_NoStop ==
  /\ Idle
  /\ Len(pulls) < MaxInFlight
  /\ \E t \in timeouts :
       /\ now >= t.at
       /\ timeouts' = timeouts \ {t}
  /\ captureFinalLeaderboard(pulls)
  /\ log' = [op |-> "fire", stopped |-> stopRuns]
  /\ UNCHANGED <<clientVars, now, intervals, sinceStop, callVars, roomVars>>

\* the deadline timer fires: stop(), then captureFinalLeaderboard()
FinalFire ==
  /\ Idle
  /\ Len(pulls) < MaxInFlight
  /\ \E t \in timeouts :
       /\ now >= t.at
       /\ timeouts' = timeouts \ {t}
  /\ stop
  /\ captureFinalLeaderboard(PullsAfterStop)
  /\ log' = [op |-> "fire", stopped |-> stopRuns]
  /\ UNCHANGED <<config, prefix, rating, deadline, users, lastid, showdiffs,
                 final, cooldown, changed, lines>>
  /\ UNCHANGED <<now, callVars, roomVars>>

\* the re-queued captureFinalLeaderboard runs once the deadline is reached
\* (a run before the deadline re-queues itself and changes nothing)
FinalPoll ==
  /\ polling
  /\ ~(deadline # None /\ now < Val(deadline))
  /\ captureFinalLeaderboard(pulls)
  /\ log' = NoLog
  /\ UNCHANGED <<clientVars, now, intervals, timeouts, sinceStop, callVars, roomVars>>

\* the wall clock advances by d ms, up to limit
Advance(d, limit) ==
  /\ now + d <= limit
  /\ now' = now + d
  /\ UNCHANGED <<clientVars, intervals, timeouts, polling, pulls, histVars, callVars, roomVars>>


\* ------------------------------------------------------------- classifier
\* averageRating(a, b): Math.round((a + b) / 2), rounding halves up
averageRating(a, b) == <<(a + b + 1) \div 2, "avg">>

\* getRating averaging with the minimum elo whenever a player is found
getRating_NoCompare(battle) ==
  LET lookup == leaderboard.lookup
      p1 == MapGet(lookup, toID(battle.p1))
      p2 == MapGet(lookup, toID(battle.p2))
  IN  IF p1 # None /\ p2 # None THEN averageRating(Val(p1).elo, Val(p2).elo)
      ELSE IF p1 # None THEN averageRating(Val(p1).elo, battle.minElo)
      ELSE IF p2 # None THEN averageRating(Val(p2).elo, battle.minElo)
      ELSE <<battle.minElo, "min">>

\* getRating(battle): the rating and which note it carries
getRating(battle) ==
  LET lookup == leaderboard.lookup
      p1 == MapGet(lookup, toID(battle.p1))
      p2 == MapGet(lookup, toID(battle.p2))
  IN  IF p1 # None /\ p2 # None THEN averageRating(Val(p1).elo, Val(p2).elo)
      ELSE IF p1 # None /\ Val(p1).elo > battle.minElo
           THEN averageRating(Val(p1).elo, battle.minElo)
      ELSE IF p2 # None /\ Val(p2).elo > battle.minElo
           THEN averageRating(Val(p2).elo, battle.minElo)
      ELSE <<battle.minElo, "min">>

\* tracking(battle, rating): whether the battle is to be reported
tracking(battle, r) ==
  LET p1 == toID(battle.p1)
      p2 == toID(battle.p2)
      a == MapGet(leaderboard.lookup, p1)
      b == MapGet(leaderboard.lookup, p2)
  IN  IF users # {} /\ (p1 \in users \/ p2 \in users) THEN TRUE
      ELSE IF startsWith(p1, prefix) \/ startsWith(p2, prefix) THEN r >= rating
      ELSE IF config.cutoff # 0 /\ startsWith(p1, prefix) /\ startsWith(p2, prefix)
           THEN /\ a # None /\ Val(a).rank # 0
                /\ Val(a).rank * FactorDen <= config.cutoff * FactorNum
                /\ b # None /\ Val(b).rank # 0
                /\ Val(b).rank * FactorDen <= config.cutoff * FactorNum
      ELSE FALSE

\* skipsRoom without the test against skipid
skipsRoom_NoDedup(room, skipid) ==
  ~tracking(room.battle, getRating(room.battle)[1])

\* whether onQueryresponse skips the room: not tracked, or not above skipid
skipsRoom(room, skipid) ==
  \/ ~tracking(room.battle, getRating(room.battle)[1])
  \/ (skipid # <<>> /\ StrGeq(skipid, room.roomid))

\* the loop of onQueryresponse with this.lastid raised by every room of
\* the list, reported or skipped
RECURSIVE RoomsFrom_MarkSeen(_, _, _, _, _)
RoomsFrom_MarkSeen(last, out, rooms, skipid, i) ==
  IF i > Len(rooms) THEN [lastid |-> last, out |-> out]
  ELSE LET room == rooms[i]
           mark == IF last = <<>> \/ StrLess(last, room.roomid)
                   THEN room.roomid ELSE last
       IN  RoomsFrom_MarkSeen(mark,
                              IF skipsRoom(room, skipid) THEN out
                              ELSE Append(out, room.roomid),
                              rooms, skipid, i + 1)

\* the loop of onQueryresponse from entry i on: last is this.lastid so far,
\* out the rooms reported so far
RECURSIVE RoomsFrom(_, _, _, _, _)
RoomsFrom(last, out, rooms, skipid, i) ==
  IF i > Len(rooms) THEN [lastid |-> last, out |-> out]
  ELSE LET room == rooms[i]
       IN  IF skipsRoom(room, skipid)
           THEN RoomsFrom(last, out, rooms, skipid, i + 1)
           ELSE RoomsFrom(IF last = <<>> \/ StrLess(last, room.roomid)
                          THEN room.roomid ELSE last,
                          Append(out, room.roomid), rooms, skipid, i + 1)

\* one more report of each room id in out, counted up to 2
CountReports(out) ==
  LET ids == {out[i] : i \in 1..Len(out)}
  IN  [id \in (DOMAIN reported) \cup ids |->
         LET was == IF id \in DOMAIN reported THEN reported[id] ELSE 0
             more == Cardinality({i \in 1..Len(out) : out[i] = id})
         IN  IF was + more > 2 THEN 2 ELSE was + more]

\* onQueryresponse: the server answers the oldest room list request with
\* rooms, a list of [roomid, battle] whose battles pass the request's filter
onQueryresponse(rooms) ==
  /\ Idle
  /\ roomlist # <<>>
  /\ \A i \in 1..Len(rooms) : rooms[i].battle.minElo >= Head(roomlist)
  /\ roomlist' = Tail(roomlist)
  /\ LET res == RoomsFrom(lastid, <<>>, rooms, lastid, 1)
     IN  /\ lastid' = res.lastid
         /\ reported' = CountReports(res.out)
         /\ log' = [op |-> "rooms", rooms |-> rooms, skipid |-> lastid,
                    out |-> res.out, seen |-> seen]
  /\ seen' = seen \cup {rooms[i].roomid : i \in 1..Len(rooms)}
  /\ UNCHANGED <<config, prefix, rating, deadline, users, showdiffs,
                 started, final, leaderboard, cooldown, changed, lines>>
  /\ UNCHANGED <<envVars, sinceStop, callVars>>


\* -------------------------------------------------------- the main tick
\* the setInterval callback up to its await: the room list request goes
\* out (filtered by rating unless users are tracked), then getLeaderboard()
\* requests the ladder
Tick ==
  /\ Idle
  /\ intervals # {}
  /\ Len(pulls) < MaxInFlight
  /\ Len(roomlist) < MaxRoomReqs
  /\ roomlist' = Append(roomlist, IF rating # 0 /\ users = {} THEN rating ELSE 0)
  /\ pulls' = Append(pulls, NewPull("tick"))
  /\ log' = NoLog
  /\ UNCHANGED <<clientVars, now, intervals, timeouts, polling, sinceStop,
                 callVars, reported, seen>>

\* .leaderboard (or .top) of a staff member: getLeaderboard(true)
StaffLeaderboard(user) ==
  /\ StaffCommand(user)
  /\ Len(pulls) < MaxInFlight
  /\ countLine(user)
  /\ pulls' = Append(pulls, NewPull("display"))
  /\ log' = NoLog
  /\ UNCHANGED <<config, prefix, rating, deadline, users, lastid, showdiffs,
                 started, final, leaderboard, cooldown, changed>>
  /\ UNCHANGED <<now, intervals, timeouts, polling, sinceStop, callVars, roomVars>>

\* ----------------------------------------------------------- cooldown gate
\* leaderboardCooldown(now), reading this.lines as ln.  The code computes
\* Math.floor(+now - +this.cooldown / MINUTE): the division binds tighter
\* than the subtraction, so wait is now minus the cooldown in minutes
\* (rounded up by the floor of the difference)
leaderboardCooldown(t, ln) ==
  IF cooldown = None THEN TRUE
  ELSE LET wait == t - ((Val(cooldown) + MINUTE - 1) \div MINUTE)
           n == IF changed = Some(TRUE) THEN ln.them ELSE ln.total
           factor == IF changed = Some(TRUE) THEN 6 ELSE 1
       IN  IF n < 10 /\ wait < 5 THEN FALSE
           ELSE factor * (wait + n) >= 60

\* .leaderboard (or .top) of a voiced user: behind the cooldown gate
VoiceLeaderboard(user) ==
  /\ ChatArrives(user)
  /\ voiced(user)
  /\ Len(pulls) < MaxInFlight
  /\ countLine(user)
  /\ LET allowed == leaderboardCooldown(now, counted(user))
     IN  /\ IF allowed
            THEN /\ cooldown' = Some(now)
                 /\ pulls' = Append(pulls, NewPull("display"))
            ELSE UNCHANGED <<cooldown, pulls>>
         /\ log' = [op |-> "voice", allowed |-> allowed, cooldown |-> cooldown,
                    now |-> now, lines |-> counted(user)]
  /\ UNCHANGED <<config, prefix, rating, deadline, users, lastid, showdiffs,
                 started, final, leaderboard, changed>>
  /\ UNCHANGED <<now, intervals, timeouts, polling, sinceStop, callVars, roomVars>>

\* the voiced users: a voice, and a voice whose name passes the authed test
VoiceUsers == {VoiceUser, <<"+", "p", "r", "e">>}

\* the commands a voiced user sends besides .leaderboard
VoiceCommands == {"deadline", "stop", "showdiffs"}

\* a command of a voiced user with the return of the voiced branch left
\* out: the command reaches the switch of the staff commands
VoiceCommand_NoReturn(user, command) ==
  /\ Idle
  /\ voiced(user)
  /\ lines.total < MaxLines
  /\ command \in VoiceCommands
  /\ countLine(user)
  /\ showdiffs' = IF command = "showdiffs" THEN TRUE ELSE showdiffs
  /\ log' = [op |-> "voiced", command |-> command, user |-> user]
  /\ UNCHANGED <<config, prefix, rating, deadline, users, lastid,
                 started, final, leaderboard, cooldown, changed>>
  /\ UNCHANGED <<envVars, sinceStop, callVars, roomVars>>

\* a command other than .leaderboard of a voiced user: .deadline and
\* .remaining report the time left (getDeadline), every other command does
\* nothing, and the voiced branch returns before the staff commands
VoiceCommand(user, command) ==
  /\ Idle
  /\ voiced(user)
  /\ lines.total < MaxLines
  /\ command \in VoiceCommands
  /\ countLine(user)
  /\ log' = [op |-> "voiced", command |-> command, user |-> user]
  /\ UNCHANGED <<config, prefix, rating, deadline, users, lastid, showdiffs,
                 started, final, leaderboard, cooldown, changed>>
  /\ UNCHANGED <<envVars, sinceStop, callVars, roomVars>>

\* ------------------------------------------------------------ trackChanges
\* the test of trackChanges on one diff: the entry crossed the cutoff n
Crossed(d, n) == (d[3] > n /\ d[4] <= n) \/ (d[3] <= n /\ d[4] > n)

\* trackChanges(ranked, this.showdiffs): chg tells whether this.changed is
\* set, msg whether the rank-diff report is emitted
trackChanges(ranked) ==
  IF leaderboard.current = None \/ config.cutoff = 0
  THEN [chg |-> FALSE, msg |-> FALSE]
  ELSE LET n == config.cutoff
           diffs == getDiffs(Val(leaderboard.current), ranked,
                             (n * FactorNum) \div FactorDen)
       IN  IF DOMAIN diffs = {}
           THEN [chg |-> FALSE, msg |-> FALSE]
           ELSE [chg |-> \E id \in DOMAIN diffs : ~Crossed(diffs[id], n),
                 msg |-> showdiffs]

\* the identifiers of the messages trackChanges pushes for its report: with
\* display set, one message for every diff
trackMessages(ranked) ==
  IF leaderboard.current = None \/ config.cutoff = 0 \/ ~showdiffs THEN {}
  ELSE DOMAIN getDiffs(Val(leaderboard.current), ranked,
                       (config.cutoff * FactorNum) \div FactorDen)

\* the sequence q without its i-th element
Without(q, i) == SubSeq(q, 1, i - 1) \o SubSeq(q, i + 1, Len(q))

\* history: the snapshots were installed by a request made after the stop
NextSinceStop(pull, installs) ==
  IF sinceStop = "clean" /\ ~pull.stale /\ installs
  THEN (IF pull.kind = "tick" THEN "installed" ELSE "other")
  ELSE sinceStop

\* PullOk with the tick callback moving the old current snapshot to last
PullOk_ShiftsLast(i, toplist) ==
  /\ Idle
  /\ i \in 1..Len(pulls)
  /\ LET pull == pulls[i]
         built == BuildLeaderboard(toplist, prefix)
         ranked == built.ranked
         display == pull.kind = "display" /\ ~built.threw
         \* the tick callback goes on only with a non-empty leaderboard
         ticks == pull.kind = "tick" /\ Len(ranked) # 0
         tc == IF ticks THEN trackChanges(ranked) ELSE [chg |-> FALSE, msg |-> FALSE]
     IN  /\ leaderboard' = [current |-> IF ticks THEN Some(ranked) ELSE leaderboard.current,
                            last |-> IF display THEN Some(ranked)
                                     ELSE IF ticks THEN leaderboard.current
                                     ELSE leaderboard.last,
                            lookup |-> built.lookup]
         /\ changed' = IF display THEN Some(FALSE)
                       ELSE IF tc.chg THEN Some(TRUE) ELSE changed
         /\ lines' = IF display THEN [them |-> 0, total |-> 0] ELSE lines
         /\ deadline' = IF pull.kind = "final" THEN None ELSE deadline
         /\ sinceStop' = NextSinceStop(pull, ticks \/ display)
         /\ log' = [op |-> IF built.threw THEN "pullFail" ELSE "pullOk",
                    kind |-> pull.kind, stale |-> pull.stale,
                    diffReport |-> tc.msg, clean |-> sinceStop = "clean",
                    finalReport |-> pull.kind = "final", lines |-> lines,
                    installed |-> ticks]
  /\ pulls' = Without(pulls, i)
  /\ UNCHANGED <<config, prefix, rating, users, lastid, showdiffs,
                 started, final, cooldown>>
  /\ UNCHANGED <<now, intervals, timeouts, polling, callVars, roomVars>>

\* http.get of pull i resolves with toplist: the rest of getLeaderboard runs,
\* then the code awaiting it (microtasks, so nothing runs in between).  When
\* the loop throws, the display block is skipped for the catch block and the
\* caller gets the list built so far.
PullOk(i, toplist) ==
  /\ Idle
  /\ i \in 1..Len(pulls)
  /\ LET pull == pulls[i]
         built == BuildLeaderboard(toplist, prefix)
         ranked == built.ranked
         display == pull.kind = "display" /\ ~built.threw
         \* the tick callback goes on only with a non-empty leaderboard
         ticks == pull.kind = "tick" /\ Len(ranked) # 0
         tc == IF ticks THEN trackChanges(ranked) ELSE [chg |-> FALSE, msg |-> FALSE]
     IN  /\ leaderboard' = [current |-> IF ticks THEN Some(ranked) ELSE leaderboard.current,
                            last |-> IF display THEN Some(ranked) ELSE leaderboard.last,
                            lookup |-> built.lookup]
         /\ changed' = IF display THEN Some(FALSE)
                       ELSE IF tc.chg THEN Some(TRUE) ELSE changed
         /\ lines' = IF display THEN [them |-> 0, total |-> 0] ELSE lines
         /\ deadline' = IF pull.kind = "final" THEN None ELSE deadline
         /\ sinceStop' = NextSinceStop(pull, ticks \/ display)
         /\ log' = [op |-> IF built.threw THEN "pullFail" ELSE "pullOk",
                    kind |-> pull.kind, stale |-> pull.stale,
                    diffReport |-> tc.msg, clean |-> sinceStop = "clean",
                    finalReport |-> pull.kind = "final", lines |-> lines,
                    installed |-> ticks]
  /\ pulls' = Without(pulls, i)
  /\ UNCHANGED <<config, prefix, rating, users, lastid, showdiffs,
                 started, final, cooldown>>
  /\ UNCHANGED <<now, intervals, timeouts, polling, callVars, roomVars>>

\* PullFail with the line counters reset in the catch block too
PullFail_ResetsLines(i) ==
  /\ Idle
  /\ i \in 1..Len(pulls)
  /\ deadline' = IF pulls[i].kind = "final" THEN None ELSE deadline
  /\ lines' = IF pulls[i].kind = "display" THEN [them |-> 0, total |-> 0] ELSE lines
  /\ log' = [op |-> "pullFail", kind |-> pulls[i].kind, stale |-> pulls[i].stale,
             diffReport |-> FALSE, clean |-> sinceStop = "clean",
             finalReport |-> pulls[i].kind = "final", lines |-> lines,
             installed |-> FALSE]
  /\ pulls' = Without(pulls, i)
  /\ UNCHANGED <<config, prefix, rating, users, lastid, showdiffs,
                 started, final, leaderboard, cooldown, changed>>
  /\ UNCHANGED <<now, intervals, timeouts, polling, sinceStop, callVars, roomVars>>

\* http.get of pull i fails: the catch block reports for a display, the
\* caller gets the empty list (the tick callback returns on it, the final
\* report shows it)
PullFail(i) ==
  /\ Idle
  /\ i \in 1..Len(pulls)
  /\ deadline' = IF pulls[i].kind = "final" THEN None ELSE deadline
  /\ log' = [op |-> "pullFail", kind |-> pulls[i].kind, stale |-> pulls[i].stale,
             diffReport |-> FALSE, clean |-> sinceStop = "clean",
             finalReport |-> pulls[i].kind = "final", lines |-> lines,
             installed |-> FALSE]
  /\ pulls' = Without(pulls, i)
  /\ UNCHANGED <<config, prefix, rating, users, lastid, showdiffs,
                 started, final, leaderboard, cooldown, changed, lines>>
  /\ UNCHANGED <<now, intervals, timeouts, polling, sinceStop, callVars, roomVars>>

\* http.get of pull i resolves with a response that holds no toplist (an
\* error page, or JSON of another shape): the lookup has been replaced by an
\* empty Map when the loop throws on response.data.toplist; then as PullFail
PullBad(i) ==
  /\ Idle
  /\ i \in 1..Len(pulls)
  /\ leaderboard' = [leaderboard EXCEPT !.lookup = EmptyMap]
  /\ deadline' = IF pulls[i].kind = "final" THEN None ELSE deadline
  /\ log' = [op |-> "pullFail", kind |-> pulls[i].kind, stale |-> pulls[i].stale,
             diffReport |-> FALSE, clean |-> sinceStop = "clean",
             finalReport |-> pulls[i].kind = "final", lines |-> lines,
             installed |-> FALSE]
  /\ pulls' = Without(pulls, i)
  /\ UNCHANGED <<config, prefix, rating, users, lastid, showdiffs,
                 started, final, cooldown, changed, lines>>
  /\ UNCHANGED <<now, intervals, timeouts, polling, sinceStop, callVars, roomVars>>

\* ------------------------------------------------------------ the ladder
\* records of response.data.toplist: userid, username and elo (in halves)
Raw(name, elo2) == [userid |-> toID(name), username |-> name, elo2 |-> elo2]

\* two ladders the tick may see: the first two players swap places
LadderA == <<Raw(<<"L", "a">>, 3200), Raw(<<"l", "b">>, 2800)>>
LadderB == <<Raw(<<"l", "b">>, 3201), Raw(<<"L", "a">>, 2800)>>
Ladders == {LadderA, LadderB}

\* two ladders with a player outside the prefix l between the two inside
LadderC == <<Raw(<<"L", "a">>, 3200), Raw(<<"c">>, 3000), Raw(<<"l", "b">>, 2800)>>
LadderD == <<Raw(<<"l", "b">>, 3200), Raw(<<"c">>, 3000), Raw(<<"L", "a">>, 2800)>>
MixedLadders == {LadderC, LadderD}

\* ------------------------------------------------------------- the rooms
\* room ids battle-<format>-9 and battle-<format>-10, by their digits
RoomIds == {<<9>>, <<1, 0>>}

\* the battles of the room lists: a watched player below the rating, two
\* ranked prefixed players whose lower elo is below the rating, and an
\* unranked prefixed player above it
RoomBattles ==
  { [p1 |-> <<"A">>, p2 |-> <<"c">>, minElo |-> 1400],
    [p1 |-> <<"L", "a">>, p2 |-> <<"l", "b">>, minElo |-> 1400],
    [p1 |-> <<"l", "c">>, p2 |-> <<"c">>, minElo |-> 1600] }

\* Object.entries(rooms): up to MaxRooms entries with distinct room ids
RoomLists ==
  LET Rooms == [roomid : RoomIds, battle : RoomBattles]
      Lists == UNION {[1..n -> Rooms] : n \in 0..MaxRooms}
  IN  {l \in Lists : \A i, j \in 1..Len(l) : l[i].roomid = l[j].roomid => i = j}

\* --------------------------------------------------------- specification
\* the scheduler and its snapshots: login, start and stop, the diff display
\* switch, the tick, the leaderboard pulls of ticks and displays
Next ==
  \/ Login
  \/ \E user \in ChatUsers : StaffStart(user)
  \/ \E user \in ChatUsers : StaffStop(user)
  \/ \E user \in ChatUsers : StaffShowdiffs(user)
  \/ \E user \in ChatUsers : StaffHidediffs(user)
  \/ \E user \in ChatUsers : StaffLeaderboard(user)
  \/ Tick
  \/ \E i \in 1..MaxInFlight, toplist \in Ladders : PullOk(i, toplist)
  \/ \E i \in 1..MaxInFlight : PullFail(i)
  \/ \E i \in 1..MaxInFlight : PullBad(i)
  \/ onQueryresponse(<<>>)

Spec == Init /\ [][Next]_vars


\* both timers: login, the lifecycle and deadline commands, the tick, the
\* deadline timer firing and polling the clock, the pulls and the clock
NextTimers ==
  \/ Login
  \/ \E user \in ChatUsers : StaffStart(user)
  \/ \E user \in ChatUsers : StaffStop(user)
  \/ \E user \in ChatUsers : StaffLeave(user)
  \/ \E user \in ChatUsers, argument \in DateArgs \cup {""} : StaffDeadline(user, argument)
  \/ Tick
  \/ \E i \in 1..MaxInFlight : PullOk(i, LadderA)
  \/ \E i \in 1..MaxInFlight : PullFail(i)
  \/ onQueryresponse(<<>>)
  \/ FinalFire
  \/ FinalPoll
  \/ Advance(500, Epoch + MaxClock * 500)

SpecTimers == Init /\ [][NextTimers]_vars

\* the cooldown gate: chat lines, voice-level leaderboard requests and
\* their pulls, the tick that sets this.changed, and the clock in minutes
NextChat ==
  \/ Login
  \/ Tick
  \/ \E user \in ChatUsers : ChatLine(user)
  \/ \E user \in ChatUsers : VoiceLeaderboard(user)
  \/ \E i \in 1..MaxInFlight, toplist \in Ladders : PullOk(i, toplist)
  \/ \E i \in 1..MaxInFlight : PullFail(i)
  \/ onQueryresponse(<<>>)
  \/ Advance(MINUTE, Epoch + MaxClock * MINUTE)

SpecChat == Init /\ [][NextChat]_vars

\* the battle reports: the tick and its room list request, the room lists
\* the server answers with, the commands that change what is tracked, and
\* the leaderboard pulls that fill the lookup
NextRooms ==
  \/ Login
  \/ Tick
  \/ \E rooms \in RoomLists : onQueryresponse(rooms)
  \/ \E i \in 1..MaxInFlight : PullOk(i, LadderA)
  \/ \E i \in 1..MaxInFlight : PullFail(i)
  \/ \E user \in ChatUsers, argument \in {<<"c">>, <<"l">>} : StaffPrefix(user, argument)
  \/ \E user \in ChatUsers, argument \in {<<"1", "4", "0", "0">>, <<"x">>} :
       StaffRating(user, argument)
  \/ \E user \in ChatUsers : StaffWatch(user, << <<"a">> >>)
  \/ \E user \in ChatUsers : StaffUnwatch(user, << <<"a">> >>)

SpecRooms == Init /\ [][NextRooms]_vars

\* the prefix and the snapshots: the tick and the displays with their
\* pulls, and the prefix command between a request and its completion
NextPrefix ==
  \/ Login
  \/ Tick
  \/ \E user \in ChatUsers : StaffLeaderboard(user)
  \/ \E user \in ChatUsers, argument \in {<<"c">>, <<"l">>, <<"l", "a">>} :
       StaffPrefix(user, argument)
  \/ \E i \in 1..MaxInFlight, toplist \in MixedLadders : PullOk(i, toplist)
  \/ \E i \in 1..MaxInFlight : PullFail(i)
  \/ onQueryresponse(<<>>)

SpecPrefix == Constructed({c \in Configs : c.cutoff # 0}) /\ args = <<>> /\ ret = <<>>
              /\ [][NextPrefix]_vars

\* the chat lines of voiced users while the tracking runs towards a
\* deadline that is not reached: their commands, their leaderboard requests
\* and the pulls
NextVoice ==
  \/ Login
  \/ \E user \in ChatUsers, argument \in DateArgs : StaffDeadline(user, argument)
  \/ Tick
  \/ \E user \in ChatUsers : VoiceLeaderboard(user)
  \/ \E user \in VoiceUsers, command \in VoiceCommands : VoiceCommand(user, command)
  \/ \E i \in 1..MaxInFlight : PullOk(i, LadderA)
  \/ \E i \in 1..MaxInFlight : PullFail(i)
  \/ onQueryresponse(<<>>)

SpecVoice == Init /\ [][NextVoice]_vars

\* the commands that configure the client, on their own
NextCommands ==
  \/ \E user \in ChatUsers, argument \in {<<"c">>, <<"l">>} : StaffPrefix(user, argument)
  \/ \E user \in ChatUsers, argument \in {<<"1", "4", "0", "0">>, <<"x">>} :
       StaffRating(user, argument)
  \/ \E user \in ChatUsers : StaffWatch(user, << <<"a">> >>)
  \/ \E user \in ChatUsers : StaffUnwatch(user, << <<"a">> >>)
  \/ \E user \in ChatUsers : StaffShowdiffs(user)
  \/ \E user \in ChatUsers : StaffHidediffs(user)
  \/ \E user \in ChatUsers, argument \in DateArgs \cup {""} : StaffDeadline(user, argument)

SpecCommands == Init /\ [][NextCommands]_vars

\* ---------------------------------------------- the classifier on its own
\* the players of the battles classified: two ranked prefixed players, an
\* unranked prefixed one, and two without the prefix
Players == {<<"L", "a">>, <<"l", "b">>, <<"l", "c">>, <<"A">>, <<"c">>}
MinElos == {1400, 1600}
Battles == {b \in [p1 : Players, p2 : Players, minElo : MinElos] : b.p1 # b.p2}

\* the client in a state its commands and pulls lead to: any tracked set,
\* prefix and rating, and the lookup of any ladder; args holds the battle
InitClassify ==
  /\ config \in Configs
  /\ prefix \in {<<"l">>, <<"c">>}
  /\ rating \in {0, 1500, 1501}
  /\ users \in {{}, {<<"a">>}, {<<"l", "a">>}}
  /\ \E toplist \in {<<>>, LadderA, LadderB} :
       leaderboard = [current |-> None, last |-> None,
                      lookup |-> BuildLeaderboard(toplist, prefix).lookup]
  /\ args \in [op : {"classify"}, battle : Battles]
  /\ ret = <<>>
  /\ deadline = None /\ lastid = <<>> /\ showdiffs = FALSE
  /\ started = None /\ final = None /\ cooldown = None /\ changed = None
  /\ lines = [them |-> 0, total |-> 0]
  /\ now = Epoch /\ intervals = {} /\ timeouts = {} /\ polling = FALSE
  /\ pulls = <<>> /\ roomlist = <<>> /\ reported = EmptyMap /\ seen = {}
  /\ log = NoLog /\ sinceStop = "never"

\* the first two statements of the loop of onQueryresponse, on args.battle
Classify ==
  /\ args # <<>> /\ args.op = "classify"
  /\ ret = <<>>
  /\ LET r == getRating(args.battle)
     IN  ret' = Some([rating |-> r, report |-> tracking(args.battle, r[1])])
  /\ UNCHANGED <<clientVars, envVars, histVars, roomVars, args>>

SpecClassify == InitClassify /\ [][Classify]_vars

\* -------------------------------------------------- getDiffs on its own
\* display names of three users; the first two are names of the same user
DiffNames == {<<"L", "a">>, <<"l", "-", "a">>, <<"l", "b">>, <<"l", "c">>}
DiffElos == {1400, 1600}

\* ranked lists as getLeaderboard builds them from a ladder with one record
\* per user: up to MaxDiffLen entries, ranks 1, 2, ..., no identifier twice
DiffLists ==
  LET Lists == UNION {[1..n -> [name : DiffNames, elo : DiffElos]] : n \in 0..MaxDiffLen}
      Unique == {l \in Lists :
                   \A i, j \in 1..Len(l) : toID(l[i].name) = toID(l[j].name) => i = j}
  IN  {[i \in 1..Len(l) |-> [name |-> l[i].name, elo |-> l[i].elo, rank |-> i]] : l \in Unique}

InitDiff ==
  /\ Constructed({c \in Configs : c.cutoff = 0})
  /\ args \in [op : {"getDiffs"}, last : DiffLists, current : DiffLists]
  /\ ret = <<>>

\* getDiffs(last, current) as styleLeaderboard calls it
CallGetDiffs ==
  /\ args # <<>> /\ args.op = "getDiffs"
  /\ ret = <<>>
  /\ ret' = Some(getDiffs(args.last, args.current, 0))
  /\ UNCHANGED <<clientVars, envVars, histVars, roomVars, args>>

SpecDiff == InitDiff /\ [][CallGetDiffs]_vars

\* ------------------------------------------ the snapshot builder on its own
\* the records a toplist is made of, the same user twice included
RawRecords ==
  {Raw(name, elo2) : name \in {<<"L", "a">>, <<"l", "b">>, <<"c">>},
                     elo2 \in {2800, 3201}}
RawLists == UNION {[1..n -> RawRecords] : n \in 0..MaxRawLen}

InitSnap ==
  /\ Constructed({c \in Configs : c.cutoff = 0})
  /\ args \in [op : {"build"}, toplist : RawLists, prefix : {<<>>, <<"l">>, <<"c">>}]
  /\ ret = <<>>

\* the loop of getLeaderboard on a response, under a prefix
CallBuild ==
  /\ args # <<>> /\ args.op = "build"
  /\ ret = <<>>
  /\ ret' = Some(BuildLeaderboard(args.toplist, args.prefix))
  /\ UNCHANGED <<clientVars, envVars, histVars, roomVars, args>>

SpecSnap == InitSnap /\ [][CallBuild]_vars

\* --------------------------------- the snapshot builder on faulty batches
\* toplists in which a record may be null
BatchRecords ==
  {Raw(<<"L", "a">>, 3200), Raw(<<"l", "b">>, 2800), Raw(<<"c">>, 2800), NullRecord}
BatchLists == UNION {[1..n -> BatchRecords] : n \in 0..MaxRawLen}

InitBatch ==
  /\ Constructed({c \in Configs : c.cutoff = 0})
  /\ args \in [op : {"build"}, toplist : BatchLists, prefix : {<<>>, <<"l">>}]
  /\ ret = <<>>

SpecBatch == InitBatch /\ [][CallBuild]_vars

\* ------------------------------------------------ trackChanges on its own
\* ranked lists of three prefixed players, each at most once
TrackLists ==
  {l \in DiffLists :
     \A i \in 1..Len(l) : l[i].elo = 1400 /\ l[i].name \in {<<"L", "a">>, <<"l", "b">>, <<"l", "c">>}}

\* the client with any retained current snapshot, with and without cutoff
\* and diff display; args holds the non-empty list the tick callback got
InitTrack ==
  /\ config \in Configs
  /\ prefix = toID(config.prefix)
  /\ rating = config.rating
  /\ showdiffs \in BOOLEAN
  /\ \E current \in {None} \cup {Some(l) : l \in TrackLists \ {<<>>}} :
       leaderboard = [current |-> current, last |-> None, lookup |-> EmptyMap]
  /\ args \in [op : {"track"}, ranked : TrackLists \ {<<>>}]
  /\ ret = <<>>
  /\ deadline = None /\ users = {} /\ lastid = <<>>
  /\ started = None /\ final = None /\ cooldown = None /\ changed = None
  /\ lines = [them |-> 0, total |-> 0]
  /\ now = Epoch /\ intervals = {} /\ timeouts = {} /\ polling = FALSE
  /\ pulls = <<>> /\ roomlist = <<>> /\ reported = EmptyMap /\ seen = {}
  /\ log = NoLog /\ sinceStop = "never"

\* trackChanges(leaderboard, this.showdiffs) as the tick callback calls it
CallTrack ==
  /\ args # <<>> /\ args.op = "track"
  /\ ret = <<>>
  /\ ret' = Some([res |-> trackChanges(args.ranked),
                  shown |-> trackMessages(args.ranked)])
  /\ UNCHANGED <<clientVars, envVars, histVars, roomVars, args>>

SpecTrack == InitTrack /\ [][CallTrack]_vars

\* ----------------------------------------------------------------- claims
\* C1: after a stop both retained snapshots (current and last) are
\* discarded and stay discarded until a tick of the next run installs one,
\* so no rank-diff report is emitted before that; sinceStop is "clean" from
\* an effective stop until a request made after it installs a snapshot.
C1_SnapshotsStayDiscarded ==
  /\ sinceStop = "clean" =>
       (leaderboard.current = None /\ leaderboard.last = None)
  /\ (log.op = "pullOk" /\ log.clean) => ~log.diffReport


\* C2: at most one main tick timer and at most one deadline timer is armed
\* in every reachable state.
C2_OneTimerOfEachKind ==
  /\ Cardinality(intervals) <= 1
  /\ Cardinality(timeouts) <= 1

\* C2 witness: a deadline command re-armed the deadline timer while an
\* earlier one was pending, and the tick is armed
C2_Witness ==
  /\ log.op = "deadline"
  /\ log.pending # {}
  /\ timeouts # {}
  /\ timeouts # log.pending
  /\ intervals # {}


\* the gate as the claim states it: wait is the whole minutes elapsed
\* between the cooldown timestamp c and the request at time t
GateAsClaimed(c, t, ln, chg) ==
  \/ c = None
  \/ LET wait == (t - Val(c)) \div MINUTE
         n == IF chg = Some(TRUE) THEN ln.them ELSE ln.total
         factor == IF chg = Some(TRUE) THEN 6 ELSE 1
     IN  ~(n < 10 /\ wait < 5) /\ factor * (wait + n) >= 60

\* C3: a voice-level leaderboard request is allowed iff no cooldown
\* timestamp exists, or not (lines < 10 and wait < 5) and
\* factor * (wait + lines) >= 60 with wait the whole minutes elapsed since
\* the cooldown timestamp; a request right after an allowed one is rejected.
C3_GateAsClaimed ==
  log.op = "voice" =>
    (log.allowed <=> GateAsClaimed(log.cooldown, log.now, log.lines, changed))


\* C4 as claimed: a voice-level request that passes the gate sets the
\* cooldown timestamp to the time of the request and resets both line
\* counters to zero as part of handling the request.
C4_ResetOnRequest ==
  (log.op = "voice" /\ log.allowed) =>
    (cooldown = Some(log.now) /\ lines = [them |-> 0, total |-> 0])

\* C4 as amended: a voice-level request that passes the gate sets the
\* cooldown timestamp to the time of the request, leaves the line counters
\* as counted and requests a display pull; the counters are reset to zero
\* when a display pull succeeds, whatever lines arrived meanwhile, and are
\* left as they were when a pull fails.
C4_ResetOnDisplay ==
  /\ (log.op = "voice" /\ log.allowed) =>
       /\ cooldown = Some(log.now)
       /\ lines = log.lines
       /\ lines.total > 0
       /\ pulls # <<>> /\ pulls[Len(pulls)].kind = "display"
  /\ (log.op = "pullOk" /\ log.kind = "display") =>
       lines = [them |-> 0, total |-> 0]
  /\ log.op = "pullFail" => lines = log.lines

\* C4 witness: the display pull of a voice-level request succeeds after
\* further chat lines were counted
C4_Witness ==
  /\ log.op = "pullOk" /\ log.kind = "display"
  /\ cooldown # None
  /\ log.lines.total >= 2
  /\ lines.total = 0


\* C5: no room identifier is reported more than once, whatever happens
\* between the room lists.
C5_ReportedOnce == \A id \in DOMAIN reported : reported[id] <= 1

\* C5 witness: a room list repeats a room id that was reported before, and
\* the room is skipped although the battle is still one to report
C5_Witness ==
  /\ log.op = "rooms"
  /\ \E i \in 1..Len(log.rooms) :
       /\ log.rooms[i].roomid \in DOMAIN reported
       /\ log.rooms[i].roomid \in log.seen
       /\ tracking(log.rooms[i].battle, getRating(log.rooms[i].battle)[1])
       /\ log.out = <<>>


\* a player of the battle is in the tracked-identifier set
HasTracked(battle) ==
  users # {} /\ (toID(battle.p1) \in users \/ toID(battle.p2) \in users)

\* the room ids the last room list reported
LastReported == {log.out[i] : i \in 1..Len(log.out)}

\* C6: a battle with a tracked player is classified as to report whatever
\* its rating, the prefix and the minimum rating; and when its room first
\* appears in a room list received while the player is tracked, it is
\* actually reported.
C6_TrackedIsReported ==
  log.op = "rooms" =>
    \A i \in 1..Len(log.rooms) :
      LET room == log.rooms[i]
      IN  HasTracked(room.battle) =>
            /\ tracking(room.battle, getRating(room.battle)[1])
            /\ room.roomid \notin log.seen => room.roomid \in LastReported

\* C8: a battle's rating is the minimum Elo of its two players: a battle
\* with no watched player is reported only if its minimum Elo is at least
\* the configured rating.
C8_ReportedOnlyAtMinElo ==
  log.op = "rooms" =>
    \A i \in 1..Len(log.rooms) :
      LET room == log.rooms[i]
      IN  (room.roomid \in LastReported /\ ~HasTracked(room.battle)) =>
            room.battle.minElo >= rating


\* Math.round of the average of a and b: the integer r with
\* r - 1/2 <= (a + b) / 2 < r + 1/2
RoundedAverage(a, b) ==
  CHOOSE r \in (IF a < b THEN a ELSE b)..(IF a < b THEN b ELSE a) + 1 :
    2 * r - 1 <= a + b /\ a + b < 2 * r + 1

\* the computed rating as C7 states it
RatingAsClaimed(battle) ==
  LET lookup == leaderboard.lookup
      id1 == toID(battle.p1)
      id2 == toID(battle.p2)
      found == {id \in {id1, id2} : id \in DOMAIN lookup}
  IN  IF id1 \in found /\ id2 \in found
      THEN RoundedAverage(lookup[id1].elo, lookup[id2].elo)
      ELSE IF \E id \in found : lookup[id].elo > battle.minElo
      THEN RoundedAverage(lookup[CHOOSE id \in found : TRUE].elo, battle.minElo)
      ELSE battle.minElo

\* a player of the battle has the prefix
HasPrefix(battle) ==
  startsWith(toID(battle.p1), prefix) \/ startsWith(toID(battle.p2), prefix)

IdsOf(list) == {toID(list[i].name) : i \in 1..Len(list)}
PositionIn(list, id) ==
  IF id \in IdsOf(list)
  THEN CHOOSE i \in 1..Len(list) : toID(list[i].name) = id
  ELSE Infinity

\* C9: for ranked lists with at most one entry per identifier, getDiffs
\* holds exactly the identifiers whose position differs between the lists
\* (absence counting as Infinity), each with its old rank, its new rank and
\* its elo in the current list, or 0 when it is absent from it.
C9_DiffsExact ==
  (ret # <<>> /\ args.op = "getDiffs") =>
    LET diffs == Val(ret)
        last == args.last
        current == args.current
    IN  /\ DOMAIN diffs =
             {id \in IdsOf(last) \cup IdsOf(current) :
                PositionIn(last, id) # PositionIn(current, id)}
        /\ \A id \in DOMAIN diffs :
             /\ diffs[id][3] = PositionIn(last, id)
             /\ diffs[id][4] = PositionIn(current, id)
             /\ diffs[id][2] = IF id \in IdsOf(current)
                               THEN current[PositionIn(current, id)].elo
                               ELSE 0

\* C9 witness: [A, B, C] against [B, A] gives A and B with ranks 1 and 2
\* exchanged and C dropped out with new rank Infinity and elo 0
C9_Witness ==
  /\ ret # <<>> /\ args.op = "getDiffs"
  /\ Len(args.last) = 3 /\ Len(args.current) = 2
  /\ DOMAIN Val(ret) = {<<"l", "a">>, <<"l", "b">>, <<"l", "c">>}
  /\ Val(ret)[<<"l", "a">>][3] = 1 /\ Val(ret)[<<"l", "a">>][4] = 2
  /\ Val(ret)[<<"l", "b">>][3] = 2 /\ Val(ret)[<<"l", "b">>][4] = 1
  /\ Val(ret)[<<"l", "c">>] = <<<<"l", "c">>, 0, 3, Infinity>>


\* Math.round of x2 / 2: the integer r with r - 1/2 <= x2 / 2 < r + 1/2
RoundedHalf(x2) ==
  CHOOSE r \in (x2 \div 2)..(x2 \div 2 + 1) : 2 * r - 1 <= x2 /\ x2 < 2 * r + 1

\* the positions of the records of userid id in a toplist
RecordsOf(toplist, id) == {j \in 1..Len(toplist) : toplist[j].userid = id}

\* C10 as claimed: for every raw list, the same identifier twice included,
\* and every prefix, the i-th entry of the ranked list has rank i and every
\* identifier of the ranked list maps in the lookup to an entry with the
\* same elo.
C10_RankedMatchesLookup ==
  (ret # <<>> /\ args.op = "build") =>
    LET ranked == Val(ret).ranked
        lookup == Val(ret).lookup
    IN  \A i \in 1..Len(ranked) :
          /\ ranked[i].rank = i
          /\ toID(ranked[i].name) \in DOMAIN lookup
          /\ lookup[toID(ranked[i].name)].elo = ranked[i].elo

\* C10 as amended: for every raw list and every prefix, the ranked list
\* holds one entry per record whose userid starts with the prefix, the i-th
\* with rank i, and every identifier of the ranked list maps in the lookup
\* to the rounded elo of the last record of that identifier, which is the
\* entry's own elo when the identifier occurs once in the raw list.
C10_LookupHoldsLastRecord ==
  (ret # <<>> /\ args.op = "build") =>
    LET ranked == Val(ret).ranked
        lookup == Val(ret).lookup
        toplist == args.toplist
    IN  /\ Len(ranked) = Cardinality({j \in 1..Len(toplist) :
                                        startsWith(toplist[j].userid, args.prefix)})
        /\ \A i \in 1..Len(ranked) :
             LET id == toID(ranked[i].name)
                 recs == RecordsOf(toplist, id)
                 lastRec == CHOOSE j \in recs : \A k \in recs : k <= j
             IN  /\ ranked[i].rank = i
                 /\ id \in DOMAIN lookup
                 /\ lookup[id].elo = RoundedHalf(toplist[lastRec].elo2)
                 /\ Cardinality(recs) = 1 => lookup[id].elo = ranked[i].elo

\* C10 witness: a user is twice in the raw list with two elos, after a
\* record without the prefix: both entries are ranked, 1 and 2, and the
\* lookup holds the elo of the second
C10_Witness ==
  /\ ret # <<>> /\ args.op = "build"
  /\ args.prefix = <<"l">>
  /\ args.toplist = <<Raw(<<"c">>, 3201), Raw(<<"L", "a">>, 2800), Raw(<<"L", "a">>, 3201)>>
  /\ Len(Val(ret).ranked) = 2
  /\ Val(ret).ranked[1].rank = 1 /\ Val(ret).ranked[1].elo = 1400
  /\ Val(ret).ranked[2].rank = 2 /\ Val(ret).ranked[2].elo = 1601
  /\ Val(ret).lookup[<<"l", "a">>].elo = 1601

\* a one-shot timer fired in this step (setDeadline replaces, never only removes)
TimerFired == timeouts' # timeouts /\ timeouts' \subseteq timeouts

\* the pulls of captureFinalLeaderboard in flight
FinalPulls(q) == {i \in 1..Len(q) : q[i].kind = "final"}

\* a pull of captureFinalLeaderboard completed in this step
FinalPullDone ==
  /\ Len(pulls') = Len(pulls) - 1
  /\ Cardinality(FinalPulls(pulls')) = Cardinality(FinalPulls(pulls)) - 1

\* a pull completed in this step and the final leaderboard report went out
FinalReported ==
  /\ Len(pulls') < Len(pulls)
  /\ log'.op \in {"pullOk", "pullFail"}
  /\ log'.finalReport

C12_PendingTimerIsDeadline ==
  timeouts # {} =>
    /\ deadline # None
    /\ \A t \in timeouts : t.at = Val(deadline) - 500

\* a leaderboard pull completed in this step and failed: the catch block ran
PullFailed == Len(pulls') < Len(pulls) /\ log'.op = "pullFail"

\* C13: when a leaderboard pull fails, the current snapshot, the last
\* snapshot and the lookup table are exactly what they were before, and the
\* tick stays armed to retry.
C13_FailureKeepsSnapshots ==
  [][PullFailed => (leaderboard' = leaderboard /\ intervals' = intervals)]_vars

\* C14: when a record of a pulled leaderboard is malformed, only that
\* record is skipped: every well-formed record of the batch, before and
\* after it, is entered into the lookup and, when its identifier starts
\* with the prefix, into the ranked list.
C14_OnlyMalformedSkipped ==
  ret # <<>> =>
    LET toplist == args.toplist
        ranked == Val(ret).ranked
        lookup == Val(ret).lookup
    IN  \A j \in 1..Len(toplist) :
          ~IsNull(toplist[j]) =>
            /\ toplist[j].userid \in DOMAIN lookup
            /\ startsWith(toplist[j].userid, args.prefix) =>
                 \E i \in 1..Len(ranked) : ranked[i].name = toplist[j].username

\* the identifiers of a ranked list, in rank order
RankOrder(list) == [i \in 1..Len(list) |-> toID(list[i].name)]

\* the pull of a tick completed in this step and succeeded while the tick
\* is armed
TickPullSucceeded ==
  /\ Len(pulls') < Len(pulls)
  /\ log'.op = "pullOk" /\ log'.kind = "tick"
  /\ started # None

\* C15: on a tick of the running scheduler whose pull succeeds, a rank-diff
\* report is emitted iff a prior current snapshot exists, at least one rank
\* differs between it and the new snapshot, and diff display is enabled.
C15_DiffReportedIffEnabled ==
  [][TickPullSucceeded =>
       (log'.diffReport <=>
          /\ leaderboard.current # None
          /\ RankOrder(Val(leaderboard.current)) # RankOrder(Val(leaderboard'.current))
          /\ showdiffs)]_vars

\* the tick timer, both retained snapshots and the configuration
LifecycleState ==
  <<started, intervals, leaderboard, config, prefix, rating, deadline, users,
    showdiffs, final, timeouts>>

\* C16: a start command received while the tick is armed and a stop command
\* received while it is not leave the tick timer, both retained snapshots
\* and the configuration unchanged and emit no report.
C16_RedundantLifecycleNoOp ==
  [][/\ ((\E user \in ChatUsers : StaffStart(user)) /\ started # None)
          => (UNCHANGED LifecycleState /\ ~log'.status)
     /\ ((\E user \in ChatUsers : StaffStop(user)) /\ started = None)
          => (UNCHANGED LifecycleState /\ ~log'.status)]_vars

\* C16 witness: a start command was received while the tick was armed and
\* a snapshot retained
C16_Witness ==
  /\ log.op = "start" /\ ~log.status
  /\ lines.total > 0
  /\ started # None /\ leaderboard.current # None

\* the configuration: prefix, minimum rating, tracked users, diff display,
\* the deadline and its armed timer
Configuration ==
  <<config, prefix, rating, users, showdiffs, deadline, final, timeouts>>

\* C17: a rating command whose argument is no number and a deadline command
\* whose argument is no date leave the configuration unchanged: the minimum
\* rating, the deadline and the armed deadline timer are what they were.
C17_InvalidArgumentIgnored ==
  [][/\ (\E user \in ChatUsers : StaffRating(user, <<"x">>))
          => UNCHANGED Configuration
     /\ (\E user \in ChatUsers : StaffDeadline(user, "soon"))
          => UNCHANGED Configuration]_vars

\* C17 witness: with a rating set by command and a deadline timer armed, a
\* rating command was received that changed nothing
C17_Witness ==
  /\ log.op = "rating" /\ ~log.status
  /\ rating = 1400
  /\ deadline # None /\ timeouts # {}

\* the pull of a tick completed in this step and the tick callback
\* replaced the current snapshot
TickInstalled ==
  /\ Len(pulls') < Len(pulls)
  /\ log'.op = "pullOk" /\ log'.kind = "tick" /\ log'.installed

\* a display pull completed in this step and succeeded
DisplaySucceeded ==
  /\ Len(pulls') < Len(pulls)
  /\ log'.op = "pullOk" /\ log'.kind = "display"

\* C18 as claimed: whenever a scheduled pull replaces the current snapshot,
\* the snapshot that was current immediately before becomes the last one.
C18_LastIsOldCurrent ==
  [][TickInstalled => leaderboard'.last = leaderboard.current]_vars

\* C18 as amended: a scheduled pull replaces the current snapshot alone and
\* leaves the last one as it was; the last snapshot changes only when a
\* display pull succeeds, to the list displayed, or when it is discarded.
C18_TickReplacesCurrentOnly ==
  [][/\ TickInstalled =>
          /\ leaderboard'.current # None
          /\ leaderboard'.last = leaderboard.last
     /\ leaderboard'.last # leaderboard.last =>
          \/ leaderboard'.last = None
          \/ DisplaySucceeded]_vars

\* C18 witness: a tick has replaced a current snapshot by one with other
\* ranks (the diff was reported) while the last snapshot holds the list of
\* an earlier display, which is not the replaced one
C18_Witness ==
  /\ log.op = "pullOk" /\ log.kind = "tick" /\ log.installed /\ log.diffReport
  /\ leaderboard.current # None /\ leaderboard.last # None
  /\ pulls = <<>>
  /\ RankOrder(Val(leaderboard.last)) = RankOrder(Val(leaderboard.current))

\* both players of the battle have the prefix
BothPrefixed(battle) ==
  startsWith(toID(battle.p1), prefix) /\ startsWith(toID(battle.p2), prefix)

\* the player has an assigned rank <= cutoff * 1.5 in the lookup
WithinSlack(id) ==
  /\ id \in DOMAIN leaderboard.lookup
  /\ leaderboard.lookup[id].rank # 0
  /\ 2 * leaderboard.lookup[id].rank <= 3 * config.cutoff

\* C19: with a cutoff configured, a battle of two prefixed players (none
\* tracked) whose computed rating is below the minimum rating is reported
\* iff both players have an assigned rank <= cutoff * 1.5 in the lookup.
C19_CutoffSlackRule ==
  (ret # <<>> /\ args.op = "classify") =>
    ((/\ config.cutoff # 0
      /\ ~HasTracked(args.battle)
      /\ BothPrefixed(args.battle)
      /\ Val(ret).rating[1] < rating) =>
       (Val(ret).report <=>
          WithinSlack(toID(args.battle.p1)) /\ WithinSlack(toID(args.battle.p2))))

\* C20: with a cutoff n configured, the rank changes in the report are only
\* those of entries that crossed n (old rank <= n and new rank > n, or old
\* rank > n and new rank <= n); a change on one side of n is not reported.
C20_OnlyCrossingsReported ==
  (ret # <<>> /\ args.op = "track" /\ leaderboard.current # None) =>
    \A id \in Val(ret).shown :
      LET n == config.cutoff
          oldrank == PositionIn(Val(leaderboard.current), id)
          newrank == PositionIn(args.ranked, id)
      IN  (oldrank <= n /\ newrank > n) \/ (oldrank > n /\ newrank <= n)

\* the snapshot is a ladder filtered with the prefix p
FilteredWith(snapshot, p) ==
  snapshot # None =>
    \E toplist \in MixedLadders : Val(snapshot) = BuildLeaderboard(toplist, p).ranked

\* C21: a prefix command that changes the prefix clears both retained
\* snapshots, and every retained snapshot was filtered with the prefix in
\* force, whenever its pull was requested: a rank diff never compares lists
\* filtered with two prefixes.
C21_SnapshotsOfOnePrefix ==
  [][/\ prefix' # prefix =>
          (leaderboard'.current = None /\ leaderboard'.last = None)
     /\ FilteredWith(leaderboard'.current, prefix')
     /\ FilteredWith(leaderboard'.last, prefix')]_vars

\* C21 witness: the prefix was changed by command after a pull had
\* completed and while another leaderboard pull was in flight
C21_Witness ==
  /\ log.op = "prefix" /\ log.status
  /\ pulls # <<>>
  /\ prefix = <<"l", "a">>
  /\ leaderboard.current = None /\ leaderboard.last = None
  /\ leaderboard.lookup # EmptyMap

\* id is the highest, in string order, of the room ids of the set
HighestOf(id, ids) == id \in ids /\ \A other \in ids : StrGeq(id, other)

\* C22 as stated: the mark is the highest room id seen in any room list so
\* far, and a room seen in an earlier room list is not reported by a later
\* one.
C22_MarkIsHighestSeen ==
  /\ seen # {} => HighestOf(lastid, seen)
  /\ log.op = "rooms" =>
       \A i \in 1..Len(log.rooms) :
         log.rooms[i].roomid \in log.seen => log.rooms[i].roomid \notin LastReported

\* C22: the mark never decreases in string order and is the highest, in
\* string order, of the room ids reported so far, undefined until a room is
\* reported; a room list reports no room whose id is not above, in string
\* order, the mark at its arrival. Rooms that were seen and not reported
\* leave the mark where it is.
C22_MarkIsHighestReported ==
  [][/\ lastid' = lastid \/ lastid = <<>> \/ StrLess(lastid, lastid')
     /\ IF DOMAIN reported' = {} THEN lastid' = <<>>
        ELSE HighestOf(lastid', DOMAIN reported')
     /\ (log'.op = "rooms" /\ roomlist' # roomlist) =>
          \A i \in 1..Len(log'.rooms) :
            (lastid # <<>> /\ StrGeq(lastid, log'.rooms[i].roomid)) =>
              log'.rooms[i].roomid \notin {log'.out[j] : j \in 1..Len(log'.out)}]_vars

\* C22 witness: a room that an earlier room list held and did not report
\* is reported by a later room list, above a mark that was set in between
C22_Witness ==
  /\ log.op = "rooms"
  /\ log.skipid # <<>>
  /\ \E i \in 1..Len(log.rooms) :
       /\ log.rooms[i].roomid \in log.seen
       /\ log.rooms[i].roomid \in LastReported
       /\ lastid = log.rooms[i].roomid

\* the step is the handling of a chat line of a voiced user
VoicedLine ==
  \/ \E user \in ChatUsers : VoiceLeaderboard(user)
  \/ \E user \in VoiceUsers, command \in VoiceCommands : VoiceCommand(user, command)

\* the step is the completion of the pull of a leaderboard display
DisplayCompletes ==
  \E i \in 1..Len(pulls) :
    /\ pulls[i].kind = "display"
    /\ PullOk(i, LadderA) \/ PullFail(i)

\* format, prefix, minimum rating, tracked identifiers, diff display, the
\* deadline, the two timers, and what the tracking retains besides the
\* snapshot of the last display
Tracking ==
  <<config, prefix, rating, users, showdiffs, deadline, final, started,
    intervals, timeouts, polling, lastid, roomlist, leaderboard.current>>

\* C23: the chat line of a voiced user, whatever its command, changes at
\* most the line counters and the cooldown and requests a display; the
\* display it requested changes at most the lookup, the last displayed
\* snapshot, the changed flag and the line counters. Format, prefix,
\* rating, tracked identifiers, diff display, deadline and both timers stay.
C23_VoicedLineKeepsTracking ==
  [][/\ VoicedLine =>
          /\ UNCHANGED Tracking
          /\ UNCHANGED <<leaderboard, changed>>
     /\ DisplayCompletes =>
          /\ UNCHANGED Tracking
          /\ UNCHANGED cooldown]_vars

\* C23 witness: while the tracking runs with a deadline timer armed, a
\* voiced user whose name passes the authed test sent .stop, and the
\* interval and the timer are still there
C23_Witness ==
  /\ log.op = "voiced" /\ log.command = "stop"
  /\ authed(log.user) /\ voiced(log.user)
  /\ started # None /\ intervals # {}
  /\ deadline # None /\ timeouts # {}
  /\ cooldown # None

====
